---- MODULE Spec2Model ----
(***************************************************************************)
(* Model of the CTA SiPM matrix IV measurement system                      *)
(* (src/src/cta_matrix_iv.py): the DataAcquisitionThread worker, the       *)
(* MainWindow handlers that start, stop and emergency-stop it, the sample  *)
(* queue drained on a GUI timer, and the two instruments (Keithley 2420    *)
(* source meter, Keithley 707 switch matrix).                              *)
(*                                                                         *)
(* Two threads run: the GUI thread (gpc, one handler at a time, a modal    *)
(* dialog inside start_run runs a nested event loop) and the worker thread *)
(* (wpc).  Voltages are integers in one fixed unit.                        *)
(***************************************************************************)
EXTENDS Integers, Sequences, FiniteSets, TLC

\* ---------------------------------------------------------------- bounds
\* channels 0..MaxChan can be selected by the operator in the model
MaxChan == 1
\* the max voltage setting explored (profile 0..MaxVolt at step 1)
MaxVolt == 2
\* number of START clicks explored
MaxStarts == 2
\* samples the queue holds at most before the 500 ms timer drains it
MaxQueue == 2

\* largest set voltage the source starts a ramp-down from, largest ramp step
MaxRampV == 12
MaxRampStep == 5
\* largest voltage and largest step of the voltage profile settings explored
MaxCalcV == 4
MaxCalcStep == 2

\* entries the command log keeps; later ones are not recorded
MaxLog == 32

\* ------------------------------------------------------ program constants
NumChannels == 16
n_measurements == 6
\* the toggle buttons in grid order, by the number in their text
channel_mappings == <<6, 5, 2, 1, 8, 7, 4, 3, 14, 13, 10, 9, 16, 15, 12, 11>>

Chans == 0..MaxChan

VARIABLES
    \* --- GUI widgets
    checked,        \* set of channels whose toggle button is checked
    buttonsEnabled, \* channel map buttons clickable
    ui,             \* settings widgets (text fields and check boxes)
    plotted,        \* channels whose subplot holds at least one point
    \* --- module globals
    running,        \* global running
    acl,            \* global active_channel_list
    \* --- worker thread
    wpc,            \* position of the worker, "idle" when no thread runs
    wcfg,           \* values run() read from the widgets
    points,         \* voltage_points
    it,             \* index of the list iterator over active_channel_list
    sipm,           \* channel being measured
    vi,             \* number of voltage points taken from voltage_points
    nread,          \* readings taken at the current step
    rv,             \* current_voltage of do_ramp_down
    rstep,          \* ramp_step of do_ramp_down
    rret,           \* where do_ramp_down returns to
    \* --- instruments
    outOn,          \* source output enabled
    setVolt,        \* source set voltage
    bias,           \* bias path closed
    closed,         \* channel relays closed
    \* --- queue, output file, pending signals
    queue,          \* Queue of samples
    nfiles,         \* output files opened so far
    fileRun,        \* the run that self.outfile was opened for
    fileOpen,       \* self.outfile is open (FALSE also before the first file)
    pendFin,        \* all_finished signals queued to the GUI thread
    \* --- GUI thread
    gpc,            \* position of the GUI thread, "loop" in the event loop
    dlg,            \* start_run is suspended in its modal dialog
    app,            \* index into the grid while rebuilding the channel list
    \* --- history
    log,            \* instrument commands and events since the latest of: the
                    \* start of the run, the connection of a channel, an
                    \* emergency stop
    conn,           \* channels connected during the current run, in order
    emits,          \* all_finished signals emitted by the current run
    runNo,          \* number of worker threads started
    starts,         \* number of START clicks
    crashed,        \* the last worker thread died of an instrument failure
    emg,            \* history of the last emergency_stop
    stp,            \* history of the last call of DataAcquisitionThread.stop
    snap            \* the settings widgets as they were when run() began

wvars == <<wpc, wcfg, points, it, sipm, vi, nread, rv, rstep, rret>>
hw == <<outOn, setVolt, bias, closed>>
gvars == <<gpc, dlg, app>>
wid == <<checked, buttonsEnabled, ui, plotted>>
hist == <<log, conn, emits, runNo, starts, crashed, emg, stp, snap>>
vars == <<wid, running, acl, wvars, hw, queue, nfiles, fileRun, fileOpen, pendFin,
          gvars, hist>>

\* ------------------------------------------------------------ pure helpers
Max(a, b) == IF a >= b THEN a ELSE b

\* np.arange(a, b, s) for s > 0: ceil((b - a) / s) values a, a+s, ...
ArangeLen(a, b, s) == IF b <= a THEN 0 ELSE ((b - a) + (s - 1)) \div s

Arange(a, b, s) == [i \in 1..ArangeLen(a, b, s) |-> a + (i - 1) * s]

\* voltage_points with the end of the range left out
VoltagePointsNoPad(c) ==
    IF c.fine
    THEN Arange(c.min, c.fstart, c.step)
         \o Arange(c.fstart, c.fend, c.fstep)
         \o Arange(c.fend, c.max, c.step)
    ELSE Arange(c.min, c.max, c.step)

\* voltage_points as computed by run()
VoltagePoints(c) ==
    IF c.fine
    THEN Arange(c.min, c.fstart, c.step)
         \o Arange(c.fstart, c.fend, c.fstep)
         \o Arange(c.fend, c.max + c.step, c.step)
    ELSE Arange(c.min, c.max + c.step, c.step)

\* list.sort() of a list of integers
SortList(s) == SortSeq(s, LAMBDA a, b: a < b)

\* history of the last emergency_stop: its phase, whether the worker was in a
\* channel's sampling loop when it was invoked, the OUTP OFF and open-all
\* commands issued since it was invoked and the samples pushed since it
\* returned
NoEmg == [phase |-> "none", inLoop |-> FALSE, off |-> 0, openAll |-> 0,
          puts |-> 0]

\* history of the last call of stop(): its phase, the handler that called it,
\* the channels connected and the samples pushed since it set the flag
NoStp == [phase |-> "none", by |-> "none", conns |-> 0, puts |-> 0]

\* ------------------------------------------------------------------- Init
\* the values of the worker's locals while no run() is executing
NoCfg == [min |-> 0, max |-> 0, step |-> 1, fine |-> FALSE,
          fstart |-> 0, fend |-> 0, fstep |-> 1,
          chkStart |-> FALSE, chkCompl |-> FALSE]

NoLocals ==
    /\ wcfg = NoCfg
    /\ points = <<>>
    /\ it = 0
    /\ sipm = 0
    /\ vi = 0
    /\ nread = 0
    /\ rv = 0
    /\ rstep = 0
    /\ rret = "r_on"

UiSet ==
    [min: {0, MaxVolt + 1}, max: {MaxVolt}, step: {1},
     fine: {FALSE}, fstart: {0}, fend: {0}, fstep: {1},
     chkStart: BOOLEAN, chkCompl: BOOLEAN,
     rampDown: BOOLEAN, rampStep: {2}]

Init ==
    /\ checked \in SUBSET Chans
    /\ buttonsEnabled = TRUE
    /\ ui \in UiSet
    /\ plotted = {}
    /\ running = FALSE
    /\ acl = <<>>
    /\ wpc = "idle"
    /\ NoLocals
    /\ outOn = FALSE
    /\ setVolt \in {0, MaxVolt + 1}
    /\ bias = FALSE
    /\ closed = {}
    /\ queue = <<>>
    /\ nfiles = 0
    /\ fileRun = 0
    /\ fileOpen = FALSE
    /\ pendFin = 0
    /\ gpc = "loop"
    /\ dlg = FALSE
    /\ app = 0
    /\ log = <<>>
    /\ conn = <<>>
    /\ emits = 0
    /\ runNo = 0
    /\ starts = 0
    /\ crashed = FALSE
    /\ emg = NoEmg
    /\ stp = NoStp
    /\ snap = ui

\* ------------------------------------------------------------ the worker
\* the locals of run() and of the functions it calls go away with the thread
DropLocals ==
    /\ wcfg' = NoCfg
    /\ points' = <<>>
    /\ it' = 0
    /\ sipm' = 0
    /\ vi' = 0
    /\ nread' = 0
    /\ rv' = 0
    /\ rstep' = 0
    /\ rret' = "r_on"

\* the command log keeps its first MaxLog entries
Logged(e) == log' = IF Len(log) < MaxLog THEN Append(log, e) ELSE log

\* the emergency_stop history after an event of kind k
EmgNote(k) ==
    IF k = "off" /\ emg.phase # "none" THEN [emg EXCEPT !.off = @ + 1]
    ELSE IF k = "openAll" /\ emg.phase # "none"
    THEN [emg EXCEPT !.openAll = @ + 1]
    ELSE IF k = "put" /\ emg.phase = "done" THEN [emg EXCEPT !.puts = @ + 1]
    ELSE emg

\* the stop() history after an event of kind k
StpNote(k) ==
    IF k = "connect" /\ stp.phase # "none" THEN [stp EXCEPT !.conns = @ + 1]
    ELSE IF k = "put" /\ stp.phase # "none" THEN [stp EXCEPT !.puts = @ + 1]
    ELSE stp

\* the stop() history when handler h calls stop()
StpCall(h) == [NoStp EXCEPT !.phase = "waiting", !.by = h]

\* DataAcquisitionThread.run, lines 140-145: read the widgets
WRunStart ==
    /\ wpc = "r_start"
    /\ wcfg' = [wcfg EXCEPT !.min = ui.min, !.max = ui.max, !.step = ui.step,
                            !.fine = ui.fine, !.chkStart = ui.chkStart,
                            !.chkCompl = ui.chkCompl]
    /\ wpc' = "r_prot"
    /\ snap' = ui
    /\ UNCHANGED <<checked, buttonsEnabled, ui, plotted, running, acl, points,
                   it, sipm, vi, nread, rv, rstep, rret, outOn, setVolt, bias,
                   closed, queue, nfiles, fileRun, fileOpen, pendFin, gpc,
                   dlg, app, log, conn, emits, runNo, starts, crashed, emg,
                   stp>>

\* line 147: set the compliance limit
WProt ==
    /\ wpc = "r_prot"
    /\ Logged(<<"prot", 0>>)
    /\ wpc' = "r_bias"
    /\ UNCHANGED <<checked, buttonsEnabled, ui, plotted, running, acl, wcfg,
                   points, it, sipm, vi, nread, rv, rstep, rret, outOn,
                   setVolt, bias, closed, queue, nfiles, fileRun, fileOpen,
                   pendFin, gpc, dlg, app, conn, emits, runNo, starts,
                   crashed, emg, stp, snap>>

\* a start of run() that enables the output without the zero check
WBiasNoZeroCheck ==
    /\ wpc = "r_bias"
    /\ bias' = TRUE
    /\ Logged(<<"bias", 0>>)
    /\ wcfg' = [wcfg EXCEPT !.fstart = ui.fstart, !.fend = ui.fend,
                            !.fstep = ui.fstep]
    /\ rret' = "r_on"
    /\ wpc' = "r_on"
    /\ UNCHANGED <<checked, buttonsEnabled, ui, plotted, running, acl, points,
                   it, sipm, vi, nread, rv, rstep, outOn, setVolt, closed,
                   queue, nfiles, fileRun, fileOpen, pendFin, gpc, dlg, app,
                   conn, emits, runNo, starts, crashed, emg, stp, snap>>

\* lines 148-155: connect_bias, read the fine scan fields, zero check
WBias ==
    /\ wpc = "r_bias"
    /\ bias' = TRUE
    /\ Logged(<<"bias", 0>>)
    /\ wcfg' = [wcfg EXCEPT !.fstart = ui.fstart, !.fend = ui.fend,
                            !.fstep = ui.fstep]
    /\ rret' = "r_on"
    /\ wpc' = IF wcfg.chkStart THEN "rd_query" ELSE "r_on"
    /\ UNCHANGED <<checked, buttonsEnabled, ui, plotted, running, acl, points,
                   it, sipm, vi, nread, rv, rstep, outOn, setVolt, closed,
                   queue, nfiles, fileRun, fileOpen, pendFin, gpc, dlg, app,
                   conn, emits, runNo, starts, crashed, emg, stp, snap>>

\* a ramp-down that starts from the last voltage the worker commanded (0 V
\* when it has commanded none) instead of the answer of the instrument
WRampQueryAssumesLast ==
    /\ wpc = "rd_query"
    /\ rstep' = ui.rampStep
    /\ LET cmds == {i \in 1..Len(log) : log[i][1] \in {"setv", "ramp"}} IN
         rv' = IF cmds = {} THEN 0
               ELSE log[CHOOSE i \in cmds : \A j \in cmds : j <= i][2]
    /\ Logged(<<"query", setVolt>>)
    /\ wpc' = "rd_loop"
    /\ UNCHANGED <<checked, buttonsEnabled, ui, plotted, running, acl, wcfg,
                   points, it, sipm, vi, nread, rret, outOn, setVolt, bias,
                   closed, queue, nfiles, fileRun, fileOpen, pendFin, gpc,
                   dlg, app, conn, emits, runNo, starts, crashed, emg, stp,
                   snap>>

\* do_ramp_down, lines 104-105: read the step widget, query the set voltage
WRampQuery ==
    /\ wpc = "rd_query"
    /\ rstep' = ui.rampStep
    /\ rv' = setVolt
    /\ Logged(<<"query", setVolt>>)
    /\ wpc' = "rd_loop"
    /\ UNCHANGED <<checked, buttonsEnabled, ui, plotted, running, acl, wcfg,
                   points, it, sipm, vi, nread, rret, outOn, setVolt, bias,
                   closed, queue, nfiles, fileRun, fileOpen, pendFin, gpc,
                   dlg, app, conn, emits, runNo, starts, crashed, emg, stp,
                   snap>>

\* a ramp-down step without the max(0, ...)
WRampStepNoClamp ==
    /\ wpc = "rd_loop"
    /\ rv > 0
    /\ rv' = rv - rstep
    /\ setVolt' = rv'
    /\ Logged(<<"ramp", rv'>>)
    /\ UNCHANGED <<checked, buttonsEnabled, ui, plotted, running, acl, wpc,
                   wcfg, points, it, sipm, vi, nread, rstep, rret, outOn,
                   bias, closed, queue, nfiles, fileRun, fileOpen, pendFin,
                   gpc, dlg, app, conn, emits, runNo, starts, crashed, emg,
                   stp, snap>>

\* do_ramp_down, lines 106-109: one turn of the while loop
WRampStep ==
    /\ wpc = "rd_loop"
    /\ rv > 0
    /\ rv' = Max(0, rv - rstep)
    /\ setVolt' = rv'
    /\ Logged(<<"ramp", rv'>>)
    /\ UNCHANGED <<checked, buttonsEnabled, ui, plotted, running, acl, wpc,
                   wcfg, points, it, sipm, vi, nread, rstep, rret, outOn,
                   bias, closed, queue, nfiles, fileRun, fileOpen, pendFin,
                   gpc, dlg, app, conn, emits, runNo, starts, crashed, emg,
                   stp, snap>>

\* do_ramp_down: the while loop ends, return to the caller
WRampEnd ==
    /\ wpc = "rd_loop"
    /\ ~(rv > 0)
    /\ wpc' = rret
    /\ UNCHANGED <<checked, buttonsEnabled, ui, plotted, running, acl, wcfg,
                   points, it, sipm, vi, nread, rv, rstep, rret, outOn,
                   setVolt, bias, closed, queue, nfiles, fileRun, fileOpen,
                   pendFin, gpc, dlg, app, log, conn, emits, runNo, starts,
                   crashed, emg, stp, snap>>

\* lines 157-166: OUTP ON, then build voltage_points
WOn ==
    /\ wpc = "r_on"
    /\ outOn' = TRUE
    /\ Logged(<<"on", 0>>)
    /\ points' = VoltagePoints(wcfg)
    /\ it' = 0
    /\ wpc' = "r_next"
    /\ UNCHANGED <<checked, buttonsEnabled, ui, plotted, running, acl, wcfg,
                   sipm, vi, nread, rv, rstep, rret, setVolt, bias, closed,
                   queue, nfiles, fileRun, fileOpen, pendFin, gpc, dlg, app,
                   conn, emits, runNo, starts, crashed, emg, stp, snap>>

\* line 168: the list iterator over the global active_channel_list
WNext ==
    /\ wpc = "r_next"
    /\ IF it < Len(acl)
       THEN /\ sipm' = acl[it + 1]
            /\ it' = it + 1
            /\ wpc' = "m_connect"
       ELSE /\ wpc' = "r_zero"
            /\ UNCHANGED <<sipm, it>>
    /\ UNCHANGED <<checked, buttonsEnabled, ui, plotted, running, acl, wcfg,
                   points, vi, nread, rv, rstep, rret, outOn, setVolt, bias,
                   closed, queue, nfiles, fileRun, fileOpen, pendFin, gpc,
                   dlg, app, log, conn, emits, runNo, starts, crashed, emg,
                   stp, snap>>

\* a connect_to_sipm after which the sweep resumes at the profile index the
\* previous channel ended with
WConnectKeepsIndex ==
    /\ wpc = "m_connect"
    /\ closed' = closed \cup {sipm}
    /\ log' = << <<"connect", sipm>> >>
    /\ conn' = Append(conn, sipm)
    /\ stp' = StpNote("connect")
    /\ wpc' = "m_for"
    /\ UNCHANGED <<checked, buttonsEnabled, ui, plotted, running, acl, wcfg,
                   points, it, sipm, vi, nread, rv, rstep, rret, outOn,
                   setVolt, bias, queue, nfiles, fileRun, fileOpen, pendFin,
                   gpc, dlg, app, emits, runNo, starts, crashed, emg, snap>>

\* perform_measurement, line 115: connect_to_sipm
WConnect ==
    /\ wpc = "m_connect"
    /\ closed' = closed \cup {sipm}
    /\ log' = << <<"connect", sipm>> >>
    /\ conn' = Append(conn, sipm)
    /\ vi' = 0
    /\ stp' = StpNote("connect")
    /\ wpc' = "m_for"
    /\ UNCHANGED <<checked, buttonsEnabled, ui, plotted, running, acl, wcfg,
                   points, it, sipm, nread, rv, rstep, rret, outOn, setVolt,
                   bias, queue, nfiles, fileRun, fileOpen, pendFin, gpc, dlg,
                   app, emits, runNo, starts, crashed, emg, snap>>

\* a step of the sweep that pushes its sample without taking the readings
WSetVoltageNoReadings ==
    /\ wpc = "m_for"
    /\ vi < Len(points)
    /\ vi' = vi + 1
    /\ setVolt' = points[vi + 1]
    /\ Logged(<<"setv", points[vi + 1]>>)
    /\ nread' = 0
    /\ wpc' = "m_put"
    /\ UNCHANGED <<checked, buttonsEnabled, ui, plotted, running, acl, wcfg,
                   points, it, sipm, rv, rstep, rret, outOn, bias, closed,
                   queue, nfiles, fileRun, fileOpen, pendFin, gpc, dlg, app,
                   conn, emits, runNo, starts, crashed, emg, stp, snap>>

\* lines 116-118: next voltage of the profile, set_voltage
WSetVoltage ==
    /\ wpc = "m_for"
    /\ vi < Len(points)
    /\ vi' = vi + 1
    /\ setVolt' = points[vi + 1]
    /\ Logged(<<"setv", points[vi + 1]>>)
    /\ nread' = 0
    /\ wpc' = "m_meas"
    /\ UNCHANGED <<checked, buttonsEnabled, ui, plotted, running, acl, wcfg,
                   points, it, sipm, rv, rstep, rret, outOn, bias, closed,
                   queue, nfiles, fileRun, fileOpen, pendFin, gpc, dlg, app,
                   conn, emits, runNo, starts, crashed, emg, stp, snap>>

\* an end of the profile that returns from perform_measurement with the relay
\* left closed
WForEndSkipsDisconnect ==
    /\ wpc = "m_for"
    /\ ~(vi < Len(points))
    /\ wpc' = "r_chk"
    /\ UNCHANGED <<checked, buttonsEnabled, ui, plotted, running, acl, wcfg,
                   points, it, sipm, vi, nread, rv, rstep, rret, outOn,
                   setVolt, bias, closed, queue, nfiles, fileRun, fileOpen,
                   pendFin, gpc, dlg, app, log, conn, emits, runNo, starts,
                   crashed, emg, stp, snap>>

\* line 116: the profile is exhausted
WForEnd ==
    /\ wpc = "m_for"
    /\ ~(vi < Len(points))
    /\ wpc' = "m_disc"
    /\ UNCHANGED <<checked, buttonsEnabled, ui, plotted, running, acl, wcfg,
                   points, it, sipm, vi, nread, rv, rstep, rret, outOn,
                   setVolt, bias, closed, queue, nfiles, fileRun, fileOpen,
                   pendFin, gpc, dlg, app, log, conn, emits, runNo, starts,
                   crashed, emg, stp, snap>>

\* readings followed by a compliance query whatever the check box says
WMeasureAlwaysChecks ==
    /\ wpc = "m_meas"
    /\ nread' = nread + n_measurements
    /\ Logged(<<"meas", n_measurements>>)
    /\ wpc' = "m_compl"
    /\ UNCHANGED <<checked, buttonsEnabled, ui, plotted, running, acl, wcfg,
                   points, it, sipm, vi, rv, rstep, rret, outOn, setVolt,
                   bias, closed, queue, nfiles, fileRun, fileOpen, pendFin,
                   gpc, dlg, app, conn, emits, runNo, starts, crashed, emg,
                   stp, snap>>

\* line 120: the list of n_measurements current readings
WMeasure ==
    /\ wpc = "m_meas"
    /\ nread' = nread + n_measurements
    /\ Logged(<<"meas", n_measurements>>)
    /\ wpc' = IF wcfg.chkCompl THEN "m_compl" ELSE "m_put"
    /\ UNCHANGED <<checked, buttonsEnabled, ui, plotted, running, acl, wcfg,
                   points, it, sipm, vi, rv, rstep, rret, outOn, setVolt,
                   bias, closed, queue, nfiles, fileRun, fileOpen, pendFin,
                   gpc, dlg, app, conn, emits, runNo, starts, crashed, emg,
                   stp, snap>>

\* line 124: is_compliance, the instrument answers tripped or not
WCompliance ==
    /\ wpc = "m_compl"
    /\ \E tripped \in BOOLEAN :
         /\ Logged(<<"compl", IF tripped THEN 1 ELSE 0>>)
         /\ wpc' = IF tripped THEN "m_trip" ELSE "m_put"
    /\ UNCHANGED <<checked, buttonsEnabled, ui, plotted, running, acl, wcfg,
                   points, it, sipm, vi, nread, rv, rstep, rret, outOn,
                   setVolt, bias, closed, queue, nfiles, fileRun, fileOpen,
                   pendFin, gpc, dlg, app, conn, emits, runNo, starts,
                   crashed, emg, stp, snap>>

\* a compliance trip that returns from perform_measurement instead of
\* breaking out of the loop
WTripReturn ==
    /\ wpc = "m_trip"
    /\ setVolt' = 0
    /\ Logged(<<"setv", 0>>)
    /\ wpc' = "r_chk"
    /\ UNCHANGED <<checked, buttonsEnabled, ui, plotted, running, acl, wcfg,
                   points, it, sipm, vi, nread, rv, rstep, rret, outOn, bias,
                   closed, queue, nfiles, fileRun, fileOpen, pendFin, gpc,
                   dlg, app, conn, emits, runNo, starts, crashed, emg, stp,
                   snap>>

\* a compliance trip that breaks out of the loop with the voltage left as set
WTripNoZero ==
    /\ wpc = "m_trip"
    /\ wpc' = "m_disc"
    /\ UNCHANGED <<checked, buttonsEnabled, ui, plotted, running, acl, wcfg,
                   points, it, sipm, vi, nread, rv, rstep, rret, outOn,
                   setVolt, bias, closed, queue, nfiles, fileRun, fileOpen,
                   pendFin, gpc, dlg, app, log, conn, emits, runNo, starts,
                   crashed, emg, stp, snap>>

\* lines 125-127: set_voltage(0) and break
WTrip ==
    /\ wpc = "m_trip"
    /\ setVolt' = 0
    /\ Logged(<<"setv", 0>>)
    /\ wpc' = "m_disc"
    /\ UNCHANGED <<checked, buttonsEnabled, ui, plotted, running, acl, wcfg,
                   points, it, sipm, vi, nread, rv, rstep, rret, outOn, bias,
                   closed, queue, nfiles, fileRun, fileOpen, pendFin, gpc,
                   dlg, app, conn, emits, runNo, starts, crashed, emg, stp,
                   snap>>

\* line 129: queue.put; the timer has drained the queue before it holds more
\* than MaxQueue samples, unless the GUI thread is blocked
WPut ==
    /\ wpc = "m_put"
    /\ Len(queue) < MaxQueue \/ gpc # "loop"
    /\ queue' = Append(queue, <<sipm, points[vi], runNo>>)
    /\ Logged(<<"put", sipm>>)
    /\ emg' = EmgNote("put")
    /\ stp' = StpNote("put")
    /\ wpc' = "m_chk"
    /\ UNCHANGED <<checked, buttonsEnabled, ui, plotted, running, acl, wcfg,
                   points, it, sipm, vi, nread, rv, rstep, rret, outOn,
                   setVolt, bias, closed, nfiles, fileRun, fileOpen, pendFin,
                   gpc, dlg, app, conn, emits, runNo, starts, crashed, snap>>

\* a per-sample check that leaves the loop for the cleanup at the end of
\* perform_measurement when the run is cancelled
WCheckSampleCleansUp ==
    /\ wpc = "m_chk"
    /\ Logged(<<"poll", IF running THEN 1 ELSE 0>>)
    /\ wpc' = IF ~running THEN "m_disc" ELSE "m_for"
    /\ UNCHANGED <<checked, buttonsEnabled, ui, plotted, running, acl, wcfg,
                   points, it, sipm, vi, nread, rv, rstep, rret, outOn,
                   setVolt, bias, closed, queue, nfiles, fileRun, fileOpen,
                   pendFin, gpc, dlg, app, conn, emits, runNo, starts,
                   crashed, emg, stp, snap>>

\* lines 132-133: the per-sample check of the running flag
WCheckSample ==
    /\ wpc = "m_chk"
    /\ Logged(<<"poll", IF running THEN 1 ELSE 0>>)
    /\ wpc' = IF ~running THEN "r_chk" ELSE "m_for"
    /\ UNCHANGED <<checked, buttonsEnabled, ui, plotted, running, acl, wcfg,
                   points, it, sipm, vi, nread, rv, rstep, rret, outOn,
                   setVolt, bias, closed, queue, nfiles, fileRun, fileOpen,
                   pendFin, gpc, dlg, app, conn, emits, runNo, starts,
                   crashed, emg, stp, snap>>

\* an end of perform_measurement that ramps down whatever the check box says
WDisconnectAlwaysRamps ==
    /\ wpc = "m_disc"
    /\ closed' = closed \ {sipm}
    /\ Logged(<<"disc", sipm>>)
    /\ rret' = "r_chk"
    /\ wpc' = "rd_query"
    /\ UNCHANGED <<checked, buttonsEnabled, ui, plotted, running, acl, wcfg,
                   points, it, sipm, vi, nread, rv, rstep, outOn, setVolt,
                   bias, queue, nfiles, fileRun, fileOpen, pendFin, gpc, dlg,
                   app, conn, emits, runNo, starts, crashed, emg, stp, snap>>

\* lines 135-137: disconnect_from_sipm, then ramp down if the box is checked
WDisconnect ==
    /\ wpc = "m_disc"
    /\ closed' = closed \ {sipm}
    /\ Logged(<<"disc", sipm>>)
    /\ rret' = "r_chk"
    /\ wpc' = IF ui.rampDown THEN "rd_query" ELSE "r_chk"
    /\ UNCHANGED <<checked, buttonsEnabled, ui, plotted, running, acl, wcfg,
                   points, it, sipm, vi, nread, rv, rstep, outOn, setVolt,
                   bias, queue, nfiles, fileRun, fileOpen, pendFin, gpc, dlg,
                   app, conn, emits, runNo, starts, crashed, emg, stp, snap>>

\* a channel loop that goes on whatever the running flag says
WCheckChannelNoReturn ==
    /\ wpc = "r_chk"
    /\ Logged(<<"poll", IF running THEN 1 ELSE 0>>)
    /\ wpc' = "r_next"
    /\ UNCHANGED <<checked, buttonsEnabled, ui, plotted, running, acl, wcfg,
                   points, it, sipm, vi, nread, rv, rstep, rret, outOn,
                   setVolt, bias, closed, queue, nfiles, fileRun, fileOpen,
                   pendFin, gpc, dlg, app, conn, emits, runNo, starts,
                   crashed, emg, stp, snap>>

\* a check between channels that ends the channel loop and goes on to the end
\* of run() when the run is cancelled
WCheckChannelFinishes ==
    /\ wpc = "r_chk"
    /\ Logged(<<"poll", IF running THEN 1 ELSE 0>>)
    /\ wpc' = IF ~running THEN "r_zero" ELSE "r_next"
    /\ UNCHANGED <<checked, buttonsEnabled, ui, plotted, running, acl, wcfg,
                   points, it, sipm, vi, nread, rv, rstep, rret, outOn,
                   setVolt, bias, closed, queue, nfiles, fileRun, fileOpen,
                   pendFin, gpc, dlg, app, conn, emits, runNo, starts,
                   crashed, emg, stp, snap>>

\* lines 170-171: the check of the running flag between channels
WCheckChannel ==
    /\ wpc = "r_chk"
    /\ Logged(<<"poll", IF running THEN 1 ELSE 0>>)
    /\ wpc' = IF ~running THEN "exit" ELSE "r_next"
    /\ UNCHANGED <<checked, buttonsEnabled, ui, plotted, running, acl, wcfg,
                   points, it, sipm, vi, nread, rv, rstep, rret, outOn,
                   setVolt, bias, closed, queue, nfiles, fileRun, fileOpen,
                   pendFin, gpc, dlg, app, conn, emits, runNo, starts,
                   crashed, emg, stp, snap>>

\* line 173: set_voltage(0) at the end of the run
WZero ==
    /\ wpc = "r_zero"
    /\ setVolt' = 0
    /\ Logged(<<"setv", 0>>)
    /\ wpc' = "r_off"
    /\ UNCHANGED <<checked, buttonsEnabled, ui, plotted, running, acl, wcfg,
                   points, it, sipm, vi, nread, rv, rstep, rret, outOn, bias,
                   closed, queue, nfiles, fileRun, fileOpen, pendFin, gpc,
                   dlg, app, conn, emits, runNo, starts, crashed, emg, stp,
                   snap>>

\* line 174: OUTP OFF
WOff ==
    /\ wpc = "r_off"
    /\ outOn' = FALSE
    /\ Logged(<<"off", 0>>)
    /\ emg' = EmgNote("off")
    /\ wpc' = "r_emit"
    /\ UNCHANGED <<checked, buttonsEnabled, ui, plotted, running, acl, wcfg,
                   points, it, sipm, vi, nread, rv, rstep, rret, setVolt,
                   bias, closed, queue, nfiles, fileRun, fileOpen, pendFin,
                   gpc, dlg, app, conn, emits, runNo, starts, crashed, stp,
                   snap>>

\* line 175: all_finished.emit, queued to the GUI thread
WEmit ==
    /\ wpc = "r_emit"
    /\ pendFin' = pendFin + 1
    /\ emits' = emits + 1
    /\ Logged(<<"emit", 0>>)
    /\ wpc' = "exit"
    /\ UNCHANGED <<checked, buttonsEnabled, ui, plotted, running, acl, wcfg,
                   points, it, sipm, vi, nread, rv, rstep, rret, outOn,
                   setVolt, bias, closed, queue, nfiles, fileRun, fileOpen,
                   gpc, dlg, app, conn, runNo, starts, crashed, emg, stp, snap>>

\* run() has returned, the thread finishes and its locals are gone
WExit ==
    /\ wpc = "exit"
    /\ wpc' = "idle"
    /\ DropLocals
    /\ UNCHANGED <<checked, buttonsEnabled, ui, plotted, running, acl, outOn,
                   setVolt, bias, closed, queue, nfiles, fileRun, fileOpen,
                   pendFin, gpc, dlg, app, log, conn, emits, runNo, starts,
                   crashed, emg, stp, snap>>

\* the positions at which the worker's next step is an instrument call
AtInstrumentCall ==
    \/ wpc \in {"r_prot", "r_bias", "rd_query", "r_on", "m_connect", "m_meas",
                "m_compl", "m_trip", "m_disc", "r_zero", "r_off"}
    \/ wpc = "rd_loop" /\ rv > 0
    \/ wpc = "m_for" /\ vi < Len(points)

\* an instrument call raises (lines 94-101 and every write or query): run()
\* has no handler, the exception ends the thread where it stands
WFail ==
    /\ AtInstrumentCall
    /\ crashed' = TRUE
    /\ Logged(<<"fail", 0>>)
    /\ wpc' = "idle"
    /\ DropLocals
    /\ UNCHANGED <<checked, buttonsEnabled, ui, plotted, running, acl, outOn,
                   setVolt, bias, closed, queue, nfiles, fileRun, fileOpen,
                   pendFin, gpc, dlg, app, conn, emits, runNo, starts, emg,
                   stp, snap>>

Worker ==
    \/ WRunStart \/ WProt \/ WBias \/ WRampQuery \/ WRampStep \/ WRampEnd
    \/ WOn \/ WNext \/ WConnect \/ WSetVoltage \/ WForEnd \/ WMeasure
    \/ WCompliance \/ WTrip \/ WPut \/ WCheckSample \/ WDisconnect
    \/ WCheckChannel \/ WZero \/ WOff \/ WEmit \/ WExit \/ WFail

\* ------------------------------------------------------------ the GUI thread
\* the event loop is ready to dispatch: at top level or inside the dialog
InLoop == gpc = "loop"

\* queued signals are delivered before new user input is handled
UserInput == gpc = "loop" /\ pendFin = 0

\* MainWindow.update_data on queue q, with the file open or not and the
\* plotted channels pl: every sample is taken from the queue, plotted and
\* written to the file; a write to a closed file raises, after the sample was
\* taken and plotted, and ends the handler
UpdateData(q, open, pl) ==
    IF q = <<>> THEN [queue |-> q, plotted |-> pl, err |-> FALSE]
    ELSE IF open
    THEN [queue |-> <<>>, plotted |-> pl \cup {q[i][1] : i \in 1..Len(q)},
          err |-> FALSE]
    ELSE [queue |-> Tail(q), plotted |-> pl \cup {Head(q)[1]}, err |-> TRUE]

\* the timer calls update_data every 500 ms
TimerTick ==
    /\ InLoop
    /\ queue # <<>>
    /\ LET ud == UpdateData(queue, fileOpen, plotted) IN
         /\ queue' = ud.queue
         /\ plotted' = ud.plotted
    /\ UNCHANGED <<checked, buttonsEnabled, ui, running, acl, wpc, wcfg,
                   points, it, sipm, vi, nread, rv, rstep, rret, outOn,
                   setVolt, bias, closed, nfiles, fileRun, fileOpen, pendFin,
                   gpc, dlg, app, log, conn, emits, runNo, starts, crashed,
                   emg, stp, snap>>

\* a channel toggle button is clicked
Toggle(c) ==
    /\ UserInput /\ ~dlg
    /\ buttonsEnabled
    /\ checked' = IF c \in checked THEN checked \ {c} ELSE checked \cup {c}
    /\ UNCHANGED <<buttonsEnabled, ui, plotted, running, acl, wpc, wcfg,
                   points, it, sipm, vi, nread, rv, rstep, rret, outOn,
                   setVolt, bias, closed, queue, nfiles, fileRun, fileOpen,
                   pendFin, gpc, dlg, app, log, conn, emits, runNo, starts,
                   crashed, emg, stp, snap>>

\* the grid positions after i whose toggle button is checked
CheckedFrom(i) ==
    {j \in (i + 1)..NumChannels : (channel_mappings[j] - 1) \in checked}

\* start_run, lines 663-676 up to active_channel_list.clear()
ClickStart ==
    /\ UserInput /\ ~dlg
    /\ starts < MaxStarts
    /\ starts' = starts + 1
    /\ plotted' = {}
    /\ acl' = <<>>
    /\ app' = 0
    /\ gpc' = "sr_build"
    /\ emg' = NoEmg
    /\ stp' = NoStp
    /\ UNCHANGED <<checked, buttonsEnabled, ui, running, wpc, wcfg, points,
                   it, sipm, vi, nread, rv, rstep, rret, outOn, setVolt, bias,
                   closed, queue, nfiles, fileRun, fileOpen, pendFin, dlg,
                   log, conn, emits, runNo, crashed, snap>>

\* create_active_channel_list, lines 654-658: the next checked button
SrAppend ==
    /\ gpc = "sr_build"
    /\ CheckedFrom(app) # {}
    /\ LET j == CHOOSE k \in CheckedFrom(app) :
                    \A m \in CheckedFrom(app) : k <= m IN
         /\ acl' = Append(acl, channel_mappings[j] - 1)
         /\ app' = j
    /\ UNCHANGED <<checked, buttonsEnabled, ui, plotted, running, wpc, wcfg,
                   points, it, sipm, vi, nread, rv, rstep, rret, outOn,
                   setVolt, bias, closed, queue, nfiles, fileRun, fileOpen,
                   pendFin, gpc, dlg, log, conn, emits, runNo, starts,
                   crashed, emg, stp, snap>>

\* create_active_channel_list, line 660, then the modal dialog opens
SrSort ==
    /\ gpc = "sr_build"
    /\ CheckedFrom(app) = {}
    /\ acl' = SortList(acl)
    /\ gpc' = "loop"
    /\ dlg' = TRUE
    /\ UNCHANGED <<checked, buttonsEnabled, ui, plotted, running, wpc, wcfg,
                   points, it, sipm, vi, nread, rv, rstep, rret, outOn,
                   setVolt, bias, closed, queue, nfiles, fileRun, fileOpen,
                   pendFin, app, log, conn, emits, runNo, starts, crashed,
                   emg, stp, snap>>

\* a start_run whose reset() leaves the relays of the matrix as they are
DialogCloseNoReset ==
    /\ UserInput /\ dlg
    /\ dlg' = FALSE
    /\ buttonsEnabled' = FALSE
    /\ running' = TRUE
    /\ IF wpc = "idle"
       THEN /\ wpc' = "r_start"
            /\ runNo' = runNo + 1
            /\ crashed' = FALSE
            /\ log' = << <<"g_openall", 0>> >>
            /\ conn' = <<>>
            /\ emits' = 0
       ELSE /\ log' = Append(log, <<"g_openall", 1>>)
            /\ UNCHANGED <<wpc, runNo, crashed, conn, emits>>
    /\ nfiles' = nfiles + 1
    /\ fileRun' = runNo'
    /\ fileOpen' = TRUE
    /\ stp' = NoStp
    /\ UNCHANGED <<checked, ui, plotted, acl, wcfg, points, it, sipm, vi,
                   nread, rv, rstep, rret, outOn, setVolt, bias, closed,
                   queue, pendFin, gpc, app, starts, emg, snap>>

\* start_run, lines 682-703: the dialog is answered; buttons disabled,
\* reset() (disconnect_all, running = True), QThread.start() (no effect on a
\* thread that runs), new output file
DialogClose ==
    /\ UserInput /\ dlg
    /\ dlg' = FALSE
    /\ buttonsEnabled' = FALSE
    /\ bias' = FALSE
    /\ closed' = {}
    /\ running' = TRUE
    /\ IF wpc = "idle"
       THEN /\ wpc' = "r_start"
            /\ runNo' = runNo + 1
            /\ crashed' = FALSE
            /\ log' = << <<"g_openall", 0>> >>
            /\ conn' = <<>>
            /\ emits' = 0
       ELSE /\ log' = Append(log, <<"g_openall", 1>>)
            /\ UNCHANGED <<wpc, runNo, crashed, conn, emits>>
    /\ nfiles' = nfiles + 1
    /\ fileRun' = runNo'
    /\ fileOpen' = TRUE
    /\ stp' = NoStp
    /\ UNCHANGED <<checked, ui, plotted, acl, wcfg, points, it, sipm, vi,
                   nread, rv, rstep, rret, outOn, setVolt, queue, pendFin,
                   gpc, app, starts, emg, snap>>

\* a stop() that does not wait for the thread
WaitReturnsAtOnce == TRUE

\* DataAcquisitionThread.stop line 70: self.wait() returns once the thread has
\* finished
WaitReturns == wpc = "idle"

\* stop_run line 706, DataAcquisitionThread.stop line 69: running = False
ClickStop ==
    /\ UserInput /\ ~dlg
    /\ running' = FALSE
    /\ gpc' = "st_wait"
    /\ stp' = StpCall("stop_run")
    /\ UNCHANGED <<checked, buttonsEnabled, ui, plotted, acl, wpc, wcfg,
                   points, it, sipm, vi, nread, rv, rstep, rret, outOn,
                   setVolt, bias, closed, queue, nfiles, fileRun, fileOpen,
                   pendFin, dlg, app, log, conn, emits, runNo, starts,
                   crashed, emg, snap>>

\* a stop_run that switches the source output off when wait() has returned
StopFinishOutputOff ==
    /\ gpc \in {"st_wait", "sv_wait"}
    /\ WaitReturns
    /\ outOn' = FALSE
    /\ LET ud == UpdateData(queue, fileOpen, plotted) IN
         /\ queue' = ud.queue
         /\ plotted' = ud.plotted
         /\ IF ud.err \/ nfiles = 0
            THEN UNCHANGED <<fileOpen, buttonsEnabled>>
            ELSE /\ fileOpen' = FALSE
                 /\ buttonsEnabled' = TRUE
    /\ gpc' = "loop"
    /\ stp' = [stp EXCEPT !.phase = "done"]
    /\ UNCHANGED <<checked, ui, running, acl, wpc, wcfg, points, it, sipm, vi,
                   nread, rv, rstep, rret, setVolt, bias, closed, nfiles,
                   fileRun, pendFin, dlg, app, log, conn, emits, runNo,
                   starts, crashed, emg, snap>>

\* a stop_run whose stop() returns without waiting for the thread
StopFinishNoWait ==
    /\ gpc \in {"st_wait", "sv_wait"}
    /\ LET ud == UpdateData(queue, fileOpen, plotted) IN
         /\ queue' = ud.queue
         /\ plotted' = ud.plotted
         /\ IF ud.err \/ nfiles = 0
            THEN UNCHANGED <<fileOpen, buttonsEnabled>>
            ELSE /\ fileOpen' = FALSE
                 /\ buttonsEnabled' = TRUE
    /\ gpc' = "loop"
    /\ stp' = [stp EXCEPT !.phase = "done"]
    /\ UNCHANGED <<checked, ui, running, acl, wpc, wcfg, points, it, sipm, vi,
                   nread, rv, rstep, rret, outOn, setVolt, bias, closed,
                   nfiles, fileRun, pendFin, dlg, app, log, conn, emits,
                   runNo, starts, crashed, emg, snap>>

\* stop_run lines 707-716 (and line 70) once wait() has returned, also as
\* called from save_data; ends early when update_data raises or when no
\* output file was ever opened
StopFinish ==
    /\ gpc \in {"st_wait", "sv_wait"}
    /\ WaitReturns
    /\ LET ud == UpdateData(queue, fileOpen, plotted) IN
         /\ queue' = ud.queue
         /\ plotted' = ud.plotted
         /\ IF ud.err \/ nfiles = 0
            THEN UNCHANGED <<fileOpen, buttonsEnabled>>
            ELSE /\ fileOpen' = FALSE
                 /\ buttonsEnabled' = TRUE
    /\ gpc' = "loop"
    /\ stp' = [stp EXCEPT !.phase = "done"]
    /\ UNCHANGED <<checked, ui, running, acl, wpc, wcfg, points, it, sipm, vi,
                   nread, rv, rstep, rret, outOn, setVolt, bias, closed,
                   nfiles, fileRun, pendFin, dlg, app, log, conn, emits,
                   runNo, starts, crashed, emg, snap>>

\* the worker is inside perform_measurement's loop over voltage_points
InSamplingLoop ==
    wpc \in {"m_for", "m_meas", "m_compl", "m_trip", "m_put", "m_chk"}

\* emergency_stop line 719: stop() sets running = False, then waits
ClickEmergency ==
    /\ UserInput /\ ~dlg
    /\ running' = FALSE
    /\ gpc' = "em_wait"
    /\ emg' = [NoEmg EXCEPT !.phase = "waiting", !.inLoop = InSamplingLoop]
    /\ stp' = StpCall("emergency_stop")
    /\ UNCHANGED <<checked, buttonsEnabled, ui, plotted, acl, wpc, wcfg,
                   points, it, sipm, vi, nread, rv, rstep, rret, outOn,
                   setVolt, bias, closed, queue, nfiles, fileRun, fileOpen,
                   pendFin, dlg, app, log, conn, emits, runNo, starts,
                   crashed, snap>>

\* an emergency_stop that leaves the matrix as it is
EmergencyFinishNoOpenAll ==
    /\ gpc = "em_wait"
    /\ WaitReturns
    /\ outOn' = FALSE
    /\ log' = << <<"g_off", 0>> >>
    /\ emg' = [emg EXCEPT !.phase = "done", !.off = @ + 1, !.openAll = @ + 1]
    /\ stp' = [stp EXCEPT !.phase = "done"]
    /\ gpc' = "loop"
    /\ UNCHANGED <<checked, buttonsEnabled, ui, plotted, running, acl, wpc,
                   wcfg, points, it, sipm, vi, nread, rv, rstep, rret,
                   setVolt, bias, closed, queue, nfiles, fileRun, fileOpen,
                   pendFin, dlg, app, conn, emits, runNo, starts, crashed,
                   snap>>

\* emergency_stop lines 720-724, once wait() has returned
EmergencyFinish ==
    /\ gpc = "em_wait"
    /\ WaitReturns
    /\ outOn' = FALSE
    /\ bias' = FALSE
    /\ closed' = {}
    /\ log' = << <<"g_off", 0>>, <<"g_openall", 0>> >>
    /\ emg' = [emg EXCEPT !.phase = "done", !.off = @ + 1, !.openAll = @ + 1]
    /\ stp' = [stp EXCEPT !.phase = "done"]
    /\ gpc' = "loop"
    /\ UNCHANGED <<checked, buttonsEnabled, ui, plotted, running, acl, wpc,
                   wcfg, points, it, sipm, vi, nread, rv, rstep, rret,
                   setVolt, queue, nfiles, fileRun, fileOpen, pendFin, dlg,
                   app, conn, emits, runNo, starts, crashed, snap>>

\* save_data, lines 795-826, up to stop() setting running = False; ends early
\* when update_data or flush raise on a closed file, or when
\* join_plots_and_add_diagnostics takes argmin of an empty list for a channel
\* without points
SaveData ==
    /\ InLoop
    /\ pendFin > 0
    /\ pendFin' = pendFin - 1
    /\ LET ud == UpdateData(queue, fileOpen, plotted) IN
         /\ queue' = ud.queue
         /\ plotted' = ud.plotted
         /\ IF ud.err \/ ~fileOpen
            THEN UNCHANGED <<fileOpen, running, gpc, stp>>
            ELSE /\ fileOpen' = FALSE
                 /\ IF \E i \in 1..Len(acl) : acl[i] \notin ud.plotted
                    THEN UNCHANGED <<running, gpc, stp>>
                    ELSE /\ running' = FALSE
                         /\ gpc' = "sv_wait"
                         /\ stp' = StpCall("save_data")
    /\ UNCHANGED <<checked, buttonsEnabled, ui, acl, wpc, wcfg, points, it,
                   sipm, vi, nread, rv, rstep, rret, outOn, setVolt, bias,
                   closed, nfiles, fileRun, dlg, app, log, conn, emits, runNo,
                   starts, crashed, emg, snap>>

GUI ==
    \/ TimerTick
    \/ \E c \in Chans : Toggle(c)
    \/ ClickStart \/ SrAppend \/ SrSort \/ DialogClose
    \/ ClickStop \/ StopFinish
    \/ ClickEmergency \/ EmergencyFinish
    \/ SaveData

Next == Worker \/ GUI

Spec == Init /\ [][Next]_vars

\* ------------------------------------------- ramp-down and voltage profile
\* The state right after start_run with no channel button checked: run()
\* reads the settings, ramps down from the voltage the source is at, builds
\* voltage_points and ends without measuring a channel.  The settings and the
\* source's set voltage range over the values below.
CalcUiSet ==
    [min: 0..MaxCalcV, max: 0..MaxCalcV, step: 1..MaxCalcStep,
     fine: {FALSE}, fstart: {0}, fend: {0}, fstep: {1},
     chkStart: {FALSE}, chkCompl: {FALSE}, rampDown: {FALSE}, rampStep: {1}]
    \cup
    [min: 0..MaxCalcV, max: 0..MaxCalcV, step: 1..MaxCalcStep,
     fine: {TRUE}, fstart: 0..MaxCalcV, fend: 0..MaxCalcV,
     fstep: 1..MaxCalcStep,
     chkStart: {FALSE}, chkCompl: {FALSE}, rampDown: {FALSE}, rampStep: {1}]

RampUiSet ==
    [min: {0}, max: {0}, step: {1},
     fine: {FALSE}, fstart: {0}, fend: {0}, fstep: {1},
     chkStart: {TRUE}, chkCompl: {FALSE}, rampDown: {FALSE},
     rampStep: 1..MaxRampStep]

CalcInit ==
    /\ \/ ui \in CalcUiSet /\ setVolt = 0
       \/ ui \in RampUiSet /\ setVolt \in 0..MaxRampV
    /\ checked = {}
    /\ buttonsEnabled = FALSE
    /\ plotted = {}
    /\ running = TRUE
    /\ acl = <<>>
    /\ wpc = "r_start"
    /\ NoLocals
    /\ outOn = FALSE
    /\ bias = FALSE
    /\ closed = {}
    /\ queue = <<>>
    /\ nfiles = 1
    /\ fileRun = 1
    /\ fileOpen = TRUE
    /\ pendFin = 0
    /\ gpc = "loop"
    /\ dlg = FALSE
    /\ app = 0
    /\ log = << <<"g_openall", 0>> >>
    /\ conn = <<>>
    /\ emits = 0
    /\ runNo = 1
    /\ starts = 1
    /\ crashed = FALSE
    /\ emg = NoEmg
    /\ stp = NoStp
    /\ snap = ui

CalcNext ==
    \/ WRunStart \/ WProt \/ WBias \/ WRampQuery \/ WRampStep \/ WRampEnd
    \/ WOn \/ WNext \/ WZero \/ WOff \/ WEmit \/ WExit

CalcSpec == CalcInit /\ [][CalcNext]_vars

\* ------------------------------------------- fine scan settings out of range
\* The program as started with the fine scan box checked and fine scan
\* bounds the operator typed out of order or out of the voltage range.
FineUiSet ==
    {[min |-> 0, max |-> MaxVolt, step |-> 1, fine |-> TRUE,
      fstart |-> p[1], fend |-> p[2], fstep |-> 1,
      chkStart |-> TRUE, chkCompl |-> TRUE, rampDown |-> FALSE,
      rampStep |-> 2] :
        p \in {<<1, 0>>, <<MaxVolt + 1, MaxVolt + 2>>}}

FineInit ==
    /\ checked \in SUBSET Chans
    /\ buttonsEnabled = TRUE
    /\ ui \in FineUiSet
    /\ plotted = {}
    /\ running = FALSE
    /\ acl = <<>>
    /\ wpc = "idle"
    /\ NoLocals
    /\ outOn = FALSE
    /\ setVolt = MaxVolt + 1
    /\ bias = FALSE
    /\ closed = {}
    /\ queue = <<>>
    /\ nfiles = 0
    /\ fileRun = 0
    /\ fileOpen = FALSE
    /\ pendFin = 0
    /\ gpc = "loop"
    /\ dlg = FALSE
    /\ app = 0
    /\ log = <<>>
    /\ conn = <<>>
    /\ emits = 0
    /\ runNo = 0
    /\ starts = 0
    /\ crashed = FALSE
    /\ emg = NoEmg
    /\ stp = NoStp
    /\ snap = ui

FineSpec == FineInit /\ [][Next]_vars

\* --------------------------------------------- settings edited during a run
\* The program started with --debug shows the settings tabs, so the operator
\* can change a setting while a run is in progress.  The ramp-down check box
\* (read by perform_measurement at the end of every sweep) is toggled here;
\* the voltage range 0..1 at step 2 and the ramp-down steps 0 and 2 are
\* settings typed before START.
EditRampDown ==
    /\ UserInput /\ ~dlg
    /\ ui' = [ui EXCEPT !.rampDown = ~@]
    /\ UNCHANGED <<checked, buttonsEnabled, plotted, running, acl, wpc, wcfg,
                   points, it, sipm, vi, nread, rv, rstep, rret, outOn,
                   setVolt, bias, closed, queue, nfiles, fileRun, fileOpen,
                   pendFin, gpc, dlg, app, log, conn, emits, runNo, starts,
                   crashed, emg, stp, snap>>

LiveUiSet ==
    [min: {0}, max: {1}, step: {2},
     fine: {FALSE}, fstart: {0}, fend: {0}, fstep: {1},
     chkStart: {TRUE}, chkCompl: {TRUE},
     rampDown: {FALSE}, rampStep: {0, 2}]

LiveInit ==
    /\ checked \in SUBSET Chans
    /\ buttonsEnabled = TRUE
    /\ ui \in LiveUiSet
    /\ plotted = {}
    /\ running = FALSE
    /\ acl = <<>>
    /\ wpc = "idle"
    /\ NoLocals
    /\ outOn = FALSE
    /\ setVolt = MaxVolt + 1
    /\ bias = FALSE
    /\ closed = {}
    /\ queue = <<>>
    /\ nfiles = 0
    /\ fileRun = 0
    /\ fileOpen = FALSE
    /\ pendFin = 0
    /\ gpc = "loop"
    /\ dlg = FALSE
    /\ app = 0
    /\ log = <<>>
    /\ conn = <<>>
    /\ emits = 0
    /\ runNo = 0
    /\ starts = 0
    /\ crashed = FALSE
    /\ emg = NoEmg
    /\ stp = NoStp
    /\ snap = ui

LiveNext == Next \/ EditRampDown

LiveSpec == LiveInit /\ [][LiveNext]_vars


\* ------------------------------------------------------------- properties
\* the number of entries of kind k in the log s
Count(s, k) == Cardinality({i \in 1..Len(s) : s[i][1] = k})

\* the log s records a compliance query answered "tripped"
Tripped(s) == \E i \in 1..Len(s) : s[i] = <<"compl", 1>>

\* C1: after an emergency_stop invoked while the worker was inside a channel's
\* sampling loop has returned, OUTP OFF and the open-all command have each
\* been issued exactly once since it was invoked and no sample has been pushed
\* since it returned.
C1_EmergencyInLoop ==
    (emg.phase = "done" /\ emg.inLoop)
        => (emg.off = 1 /\ emg.openAll = 1 /\ emg.puts = 0)

C1_Witness ==
    /\ emg.phase = "done"
    /\ emg.inLoop
    /\ emg.off = 1
    /\ queue # <<>>

C3_SafeAfterEmergency ==
    emg.phase = "done" => (~outOn /\ ~bias /\ closed = {})

C3_Witness ==
    /\ emg.phase = "done"
    /\ conn # <<>>
    /\ gpc = "loop"
    /\ closed = {}

\* C4: a start_run invoked while the worker thread runs changes nothing: no
\* instrument state, not the active channel list, the running flag or the
\* output file.
C4_StartWhileRunningRejected ==
    [][(wpc # "idle" /\ (starts' # starts \/ (dlg /\ ~dlg')))
         => UNCHANGED <<outOn, setVolt, bias, closed, acl, running, nfiles,
                        fileRun, fileOpen>>]_vars

\* C5: the GUI thread issues no instrument command while the worker thread
\* runs.
C5_SingleWriter ==
    \A i \in 1..Len(log) : log[i] # <<"g_openall", 1>>

\* C6: the channels connected during a run are in strictly ascending order
\* (so each at most once) and are indices 0..15.
C6_AscendingOrder ==
    /\ \A i \in 1..Len(conn) : conn[i] \in 0..(NumChannels - 1)
    /\ \A i \in 1..(Len(conn) - 1) : conn[i] < conn[i + 1]

\* C7: with skip-on-compliance set, once the compliance query of a channel's
\* k-th step has answered "tripped", that channel has k-1 samples and gets no
\* more, its relay is open when perform_measurement has returned, and unless
\* a stop was requested the channel loop goes on to the next entry of the
\* active channel list.
C7_State ==
    (wpc # "idle" /\ Tripped(log)) =>
        /\ wcfg.chkCompl
        /\ Count(log, "put") = vi - 1
        /\ wpc \notin {"m_for", "m_meas", "m_compl", "m_put", "m_chk"}
        /\ wpc \notin {"m_trip", "m_disc"} => sipm \notin closed

C7_Step ==
    /\ (wpc = "r_chk" /\ Tripped(log) /\ running /\ wpc' # wpc)
          => wpc' = "r_next"
    /\ (wpc = "r_next" /\ Tripped(log) /\ it < Len(acl) /\ wpc' # wpc)
          => (wpc' = "m_connect" /\ sipm' = acl[it + 1])

C7_SkipOnCompliance == []C7_State /\ [][C7_Step]_vars

C7_Witness ==
    /\ wpc = "m_connect"
    /\ Tripped(log)
    /\ vi >= 2
    /\ Count(log, "put") = vi - 1
    /\ Len(conn) = 1

\* C8: with skip-on-compliance not set the compliance state is never queried,
\* every voltage set so far has one sample once its step is done, and the
\* sweep ends only after the last voltage of the profile unless a stop was
\* requested.
C8_NoSkip ==
    (wpc # "idle" /\ ~wcfg.chkCompl) =>
        /\ Count(log, "compl") = 0
        /\ wpc \in {"m_for", "m_chk", "m_disc"} =>
              (Count(log, "setv") = vi /\ Count(log, "put") = vi)
        /\ wpc \in {"m_meas", "m_put"} =>
              (Count(log, "setv") = vi /\ Count(log, "put") = vi - 1)
        /\ wpc = "m_disc" => vi = Len(points)

C8_Witness ==
    /\ wpc = "m_disc"
    /\ ~wcfg.chkCompl
    /\ Len(points) >= 2
    /\ Count(log, "put") = Len(points)

\* C9: a run that ended through an instrument failure has left the output
\* disabled, every path open and the running flag cleared.
C9_FailureSafes ==
    crashed => (~outOn /\ ~bias /\ closed = {} /\ ~running)

\* C10: a run whose channels all completed has commanded 0 V, then OUTP OFF,
\* then emitted all_finished, once; and handling all_finished while no stop
\* was requested clears the running flag.
C10_State ==
    /\ emits <= 1
    /\ (wpc = "exit" /\ emits = 1) =>
          \E i, j, k \in 1..Len(log) :
              /\ i < j /\ j < k
              /\ log[i] = <<"setv", 0>>
              /\ log[j] = <<"off", 0>>
              /\ log[k] = <<"emit", 0>>
              /\ \A m \in (i + 1)..Len(log) :
                    log[m][1] \in {"off", "emit", "g_openall"}

C10_Step ==
    (pendFin' < pendFin /\ running) => ~running'

C10_NaturalCompletion == []C10_State /\ [][C10_Step]_vars

\* C11: stop() issues no instrument command: the step in which a handler
\* calls stop() and sets the flag, and the rest of stop_run once wait() has
\* returned, leave the output-enable state, the set voltage and the relays as
\* they were and add no command to the log.
C11_StopTouchesNoHardware ==
    [][((gpc = "loop" /\ gpc' \in {"st_wait", "sv_wait", "em_wait"})
          \/ (gpc \in {"st_wait", "sv_wait"} /\ gpc' = "loop"))
         => UNCHANGED <<outOn, setVolt, bias, closed, log>>]_vars

C11_Witness ==
    /\ stp.phase = "done"
    /\ stp.by = "stop_run"
    /\ gpc = "loop"
    /\ outOn
    /\ bias
    /\ closed # {}
    /\ setVolt > 0

\* C12: once stop() has returned the worker thread has finished, and until
\* the next start_run no instrument command is issued and no sample is pushed.
C12_State == stp.phase = "done" => wpc = "idle"

C12_Step ==
    (stp.phase = "done" /\ stp'.phase = "done")
        => (UNCHANGED <<outOn, setVolt, bias, closed, log>>
            /\ Len(queue') <= Len(queue))

C12_StopWaitsForWorker == []C12_State /\ [][C12_Step]_vars

C12_Witness ==
    /\ stp.phase = "done"
    /\ stp.by = "stop_run"
    /\ stp.puts = 1
    /\ wpc = "idle"
    /\ closed # {}

\* C13: while a channel is measured its channel-started event (emitted by
\* connect_to_sipm) is the first entry of the channel's log, every sample
\* logged since is of that channel, the k-th sample pushed is that of profile
\* index k, and all_finished is emitted only when the worker pushes no more
\* samples and connects no more channels.
C13_State ==
    /\ wpc \in {"m_for", "m_meas", "m_compl", "m_trip", "m_put", "m_chk",
                "m_disc"} =>
          /\ log[1] = <<"connect", sipm>>
          /\ \A i \in 1..Len(log) : log[i][1] = "put" => log[i][2] = sipm
          /\ Count(log, "put") \in {vi - 1, vi}
    /\ emits > 0 => wpc \in {"exit", "idle"}

C13_Step ==
    /\ Len(queue') > Len(queue) =>
          /\ queue' = Append(queue, <<sipm, points[vi], runNo>>)
          /\ Count(log, "put") = vi - 1
          /\ emits = 0
    /\ Len(conn') > Len(conn) => emits = 0

C13_EventOrder == []C13_State /\ [][C13_Step]_vars

C13_Witness ==
    /\ wpc = "exit"
    /\ emits = 1
    /\ Len(conn) = 2
    /\ log[1][1] = "connect"
    /\ Count(log, "put") >= 2

\* the voltages do_ramp_down has commanded, in order, and the voltage it
\* queried from the source
RampCmds == SelectSeq(log, LAMBDA e : e[1] = "ramp")

RampFrom == SelectSeq(log, LAMBDA e : e[1] = "query")

\* C14: a ramp-down from the queried voltage V with step s commands
\* max(0, V - s), max(0, V - 2s), ...: each command is max(0, previous - s),
\* none is negative, and when the ramp-down from V > 0 has returned the last
\* command was 0.
C14_RampDown ==
    RampFrom # <<>> =>
        LET V == RampFrom[1][2]
            s == ui.rampStep
            R == RampCmds
        IN  /\ \A i \in 1..Len(R) :
                  /\ R[i][2] = Max(0, (IF i = 1 THEN V ELSE R[i - 1][2]) - s)
                  /\ R[i][2] = Max(0, V - i * s)
                  /\ R[i][2] >= 0
            /\ (V > 0 /\ wpc \notin {"rd_query", "rd_loop"}) =>
                  (R # <<>> /\ R[Len(R)][2] = 0)

C14_Witness ==
    /\ wpc = "r_on"
    /\ RampFrom = << <<"query", 12>> >>
    /\ RampCmds = << <<"ramp", 7>>, <<"ramp", 2>>, <<"ramp", 0>> >>

\* run() has built voltage_points
ProfileBuilt ==
    \/ wpc \notin {"idle", "r_start", "r_prot", "r_bias", "r_on", "rd_query",
                   "rd_loop"}
    \/ wpc \in {"rd_query", "rd_loop"} /\ rret = "r_chk"

NonDecreasing(s) == \A i \in 1..(Len(s) - 1) : s[i] <= s[i + 1]

\* C15: with fine scan off and min <= max the profile is non-decreasing,
\* starts at the minimum voltage and ends within one step of the maximum.
C15_CoarseProfile ==
    (ProfileBuilt /\ ~wcfg.fine /\ wcfg.min <= wcfg.max) =>
        /\ points # <<>>
        /\ points[1] = wcfg.min
        /\ NonDecreasing(points)
        /\ points[Len(points)] >= wcfg.max - wcfg.step
        /\ points[Len(points)] <= wcfg.max + wcfg.step

C15_Witness ==
    /\ ProfileBuilt
    /\ ~wcfg.fine
    /\ wcfg.max = 4
    /\ points = <<1, 3, 5>>

\* C16: with fine scan on and min <= fine start <= fine end <= max the
\* profile is non-decreasing, is the coarse values of [min, fine start), then
\* the fine values of [fine start, fine end), then the coarse values of
\* [fine end, max], and holds no value outside [min, max].
C16_FineProfile ==
    (ProfileBuilt /\ wcfg.fine /\ wcfg.min <= wcfg.fstart
       /\ wcfg.fstart <= wcfg.fend /\ wcfg.fend <= wcfg.max) =>
        /\ NonDecreasing(points)
        /\ points = Arange(wcfg.min, wcfg.fstart, wcfg.step)
                    \o Arange(wcfg.fstart, wcfg.fend, wcfg.fstep)
                    \o Arange(wcfg.fend, wcfg.max + 1, wcfg.step)
        /\ \A i \in 1..Len(points) :
              wcfg.min <= points[i] /\ points[i] <= wcfg.max

\* C17: with a minimum voltage above the maximum voltage no compliance
\* limit is set, no bias path or channel relay is closed and the output is
\* never enabled.
C17_InvalidRangeRejected ==
    ui.min > ui.max =>
        /\ \A i \in 1..Len(log) :
              log[i][1] \notin {"prot", "bias", "on", "connect"}
        /\ ~outOn /\ ~bias /\ closed = {}

\* the fine scan bounds are out of order or the fine scan start is outside
\* the voltage range
InvalidFine(c) ==
    c.fine /\ (c.fstart > c.fend \/ c.fstart < c.min \/ c.fstart > c.max)

\* C18: with fine scan bounds out of order or out of range the worker never
\* sets a voltage of the profile (the step that leads to the readings) and no
\* relay is closed when the worker has ended.
C18_InvalidFineRejected ==
    InvalidFine(ui) =>
        /\ wpc # "m_meas"
        /\ wpc = "idle" => closed = {}

\* C19: from a call of stop() on, the worker connects no further channel and
\* pushes at most one sample.
C19_StopEndsLoopAtOnce ==
    stp.phase # "none" => (stp.conns = 0 /\ stp.puts <= 1)

\* C20: when the worker is about to take the current readings of a step for
\* channel sipm, the output is enabled, the bias path is closed and the relay
\* of sipm is the one channel relay closed.
C20_ReadingPath ==
    wpc = "m_meas" => (outOn /\ bias /\ closed = {sipm})


\* C21: with fine scan off, min <= max and step > 0, no voltage the worker
\* commands during a sweep is above the maximum voltage.
C21_NoOvershoot ==
    (wpc # "idle" /\ ~wcfg.fine /\ wcfg.min <= wcfg.max /\ wcfg.step > 0) =>
        \A i \in 1..Len(log) : log[i][1] = "setv" => log[i][2] <= wcfg.max

\* C22: every step of a ramp-down commands a voltage strictly below the one
\* before it, so that a ramp from V volts ends after at most V steps and the
\* worker leaves do_ramp_down.
C22_RampTerminates ==
    [][(/\ wpc = "rd_loop"
        /\ Len(log') = Len(log) + 1
        /\ log'[Len(log')][1] = "ramp") => log'[Len(log')][2] < rv]_vars

\* C23: a ramp-down after a channel's sweep is run only if ramp-down was
\* enabled in the settings the run started with.
C23_SnapshotConfig ==
    (wpc \in {"rd_query", "rd_loop"} /\ rret = "r_chk") => snap.rampDown

\* C24: at every moment at most one channel relay of the matrix is closed.
C24_OneChannelClosed == Cardinality(closed) <= 1

C24_Witness ==
    /\ runNo = 2
    /\ wpc = "m_meas"
    /\ sipm = 1
    /\ closed = {1}

\* C25: whenever samples are taken from the queue the output file is open and
\* is the file of the run that produced each of them, and there is one output
\* file per run.
C25_SamplesInOwnFile ==
    [][Len(queue') < Len(queue) =>
          /\ fileOpen
          /\ \A i \in 1..Len(queue) : queue[i][3] = fileRun]_vars
    /\ [](nfiles = runNo)

\* the worker saw the running flag cleared at the per-sample check that is
\* entry i of the log
CancelSeenAt(i) ==
    /\ i > 1
    /\ log[i] = <<"poll", 0>>
    /\ log[i - 1][1] = "put"

\* C26: once the worker has seen the running flag cleared at the per-sample
\* check it issues no further instrument command: no relay is opened, no
\* ramp-down is run, 0 V is not commanded and the output is not switched off.
C26_NoCleanupOnCancel ==
    \A i \in 1..Len(log) :
        CancelSeenAt(i) => \A j \in (i + 1)..Len(log) : log[j][1] = "poll"

C26_Witness ==
    /\ wpc = "exit"
    /\ Len(log) >= 3
    /\ CancelSeenAt(Len(log) - 1)
    /\ sipm \in closed
    /\ outOn
    /\ setVolt > 0

\* the worker has seen the running flag cleared at one of its checks
CancelSeen == \E i \in 1..Len(log) : log[i] = <<"poll", 0>>

\* C27: all_finished is emitted at most once per run, and a run in which the
\* worker saw the running flag cleared emits nothing and issues neither the
\* end-of-run set_voltage(0) nor OUTP OFF.
C27_FinishedOnlyOnCompletion ==
    /\ emits <= 1
    /\ CancelSeen => emits = 0
    /\ \A i \in 1..Len(log) :
          log[i] = <<"poll", 0>> =>
              \A j \in (i + 1)..Len(log) :
                  log[j][1] \notin {"setv", "off", "emit"}

C27_Witness ==
    /\ wpc = "exit"
    /\ CancelSeen
    /\ emits = 0
    /\ outOn

\* the worker is in run() before the OUTP ON of line 157
BeforeOutputOn ==
    \/ wpc \in {"r_start", "r_prot", "r_bias", "r_on"}
    \/ wpc \in {"rd_query", "rd_loop"} /\ rret = "r_on"

\* C28: the compliance limit is set and the bias path is closed before OUTP ON
\* is issued; with the zero check ticked the ramp-down has brought the source
\* to 0 V before OUTP ON is issued; no channel is connected before OUTP ON.
C28_StartOrder ==
    /\ \A i \in 1..Len(log) :
          log[i][1] = "on" =>
              /\ \E j \in 1..(i - 1) : log[j][1] = "prot"
              /\ \E j \in 1..(i - 1) : log[j][1] = "bias"
              /\ snap.chkStart =>
                    \E j \in 1..(i - 1) :
                        /\ log[j][1] \in {"query", "ramp"}
                        /\ log[j][2] = 0
                        /\ \A k \in (j + 1)..(i - 1) :
                              log[k][1] \notin {"query", "ramp", "setv"}
    /\ (wpc = "r_on" /\ snap.chkStart) => setVolt = 0
    /\ BeforeOutputOn => (conn = <<>> /\ closed = {})

C28_Witness ==
    /\ wpc = "r_next"
    /\ it = 0
    /\ snap.chkStart
    /\ \E i \in 1..Len(log) : log[i] = <<"query", MaxVolt + 1>>
    /\ log[Len(log)][1] = "on"
    /\ outOn
    /\ bias
    /\ setVolt = 0

\* C29: after a compliance query of a channel has answered "tripped", 0 V is
\* commanded before the relay of the channel is opened (the source is at 0 V
\* when the worker is about to open it), and for that channel no further
\* voltage of the profile is commanded and no further reading is taken.
C29_TripZeroBeforeOpen ==
    /\ (wpc = "m_disc" /\ Tripped(log)) => setVolt = 0
    /\ \A i \in 1..Len(log) :
          log[i] = <<"compl", 1>> =>
              \A j \in (i + 1)..Len(log) :
                  /\ log[j][1] \notin {"meas", "put", "compl"}
                  /\ log[j][1] = "setv" => log[j][2] = 0
                  /\ log[j][1] = "disc" =>
                        \E k \in (i + 1)..(j - 1) : log[k] = <<"setv", 0>>

C29_Witness ==
    /\ wpc = "r_chk"
    /\ wcfg.chkCompl
    /\ Tripped(log)
    /\ vi >= 2
    /\ log[Len(log)][1] = "disc"
    /\ log[Len(log) - 1] = <<"setv", 0>>
    /\ sipm \notin closed

\* C30 (state part): in the log of a channel every command of the ramp-down
\* comes after the command that opens the relay of the channel, and the relay
\* is open while the ramp-down runs.
C30_State ==
    /\ (Len(log) > 0 /\ log[1][1] = "connect") =>
          \A i \in 1..Len(log) :
              log[i][1] \in {"query", "ramp"} =>
                  \E j \in 1..(i - 1) : log[j] = <<"disc", log[1][2]>>
    /\ (wpc \in {"rd_query", "rd_loop"} /\ rret = "r_chk") => sipm \notin closed

\* C30 (step part): when perform_measurement has opened the relay it goes on
\* to the ramp-down exactly if the ramp-down box is ticked.
C30_Step ==
    (wpc = "m_disc" /\ wpc' \in {"rd_query", "r_chk"}) =>
        (wpc' = "rd_query" <=> ui.rampDown)

\* C30: after a channel's sweep has ended, by the end of the profile or by a
\* compliance trip, the relay of the channel is opened before any ramp-down
\* command, and the ramp-down is run only if ramp-down is enabled.
C30_OpenThenRamp == []C30_State /\ [][C30_Step]_vars

C30_Witness ==
    /\ wpc = "rd_loop"
    /\ rret = "r_chk"
    /\ ui.rampDown
    /\ vi = Len(points)
    /\ sipm \notin closed
    /\ log[Len(log)][1] = "ramp"
    /\ \E j \in 1..Len(log) : log[j] = <<"disc", sipm>>

\* C31 (state part): every ramp command in the log follows a query of the set
\* voltage that was answered with more than 0 V, with nothing but ramp
\* commands of the worker in between, and the first ramp command after a
\* query is the answer of the instrument less one ramp step, not below 0 V.
C31_State ==
    /\ \A i \in 1..Len(log) :
          log[i][1] = "ramp" =>
              \E j \in 1..(i - 1) :
                  /\ log[j][1] = "query"
                  /\ log[j][2] > 0
                  /\ \A k \in (j + 1)..(i - 1) :
                        log[k][1] \in {"ramp", "g_openall"}
    /\ wpc = "rd_loop" =>
          \A i \in 1..(Len(log) - 1) :
              (log[i][1] = "query" /\ log[i + 1][1] = "ramp") =>
                  log[i + 1][2] = Max(0, log[i][2] - rstep)

\* C31 (step part): do_ramp_down starts from the set voltage the instrument
\* reports when it is asked, and issues no command when that is 0 V or less.
C31_Step ==
    /\ (wpc = "rd_query" /\ wpc' = "rd_loop") =>
          (rv' = setVolt /\ log' = Append(log, <<"query", setVolt>>))
    /\ (wpc = "rd_loop" /\ rv <= 0 /\ wpc' # wpc) =>
          (wpc' \in {rret, "idle"} /\ setVolt' = setVolt)

\* C31: every ramp-down, at the zero check of the start of a run and after a
\* channel, starts from a fresh query of the set voltage of the instrument,
\* and commands nothing when the answer is 0 V or less.
C31_RampFromQuery == []C31_State /\ [][C31_Step]_vars

C31_Witness ==
    /\ runNo = 1
    /\ wpc = "rd_loop"
    /\ rret = "r_on"
    /\ \A i \in 1..Len(log) : log[i][1] # "setv"
    /\ Len(log) >= 2
    /\ log[Len(log) - 1] = <<"query", MaxVolt + 1>>
    /\ log[Len(log)] = <<"ramp", MaxVolt + 1 - rstep>>

\* the entries of the log that the worker wrote
WorkerLog == SelectSeq(log, LAMBDA e : e[1] \notin {"g_openall", "g_off"})

\* C32: in the log of a channel every sample pushed is preceded, in this
\* order, by the command of the voltage, the n_measurements = 6 readings and,
\* exactly when skip-on-compliance is set, one compliance query; the running
\* flag is polled only after a push or after the sweep has ended; the sample
\* of a step is pushed with the 6 readings of that step taken.
C32_StepOrder ==
    LET w == WorkerLog IN
    /\ \A i \in 1..Len(w) :
          /\ w[i][1] = "put" =>
                IF snap.chkCompl
                THEN /\ i > 3
                     /\ w[i - 1] = <<"compl", 0>>
                     /\ w[i - 2] = <<"meas", 6>>
                     /\ w[i - 3][1] = "setv"
                ELSE /\ i > 2
                     /\ w[i - 1] = <<"meas", 6>>
                     /\ w[i - 2][1] = "setv"
          /\ w[i][1] = "compl" => (snap.chkCompl /\ i > 1 /\ w[i - 1][1] = "meas")
          /\ w[i][1] = "meas" => (i > 1 /\ w[i - 1][1] = "setv")
          /\ w[i][1] = "poll" =>
                (i > 1 /\ w[i - 1][1] \in {"put", "disc", "ramp", "query", "poll"})
    /\ wpc \in {"m_put", "m_chk"} => nread = 6

C32_Witness ==
    /\ wpc = "m_chk"
    /\ snap.chkCompl
    /\ vi = 2
    /\ Len(log) >= 4
    /\ log[Len(log)][1] = "put"
    /\ log[Len(log) - 1] = <<"compl", 0>>
    /\ log[Len(log) - 2] = <<"meas", 6>>
    /\ log[Len(log) - 3] = <<"setv", points[2]>>

\* the worker is in the channel loop of a run whose voltage profile is empty
EmptyProfileChannel ==
    /\ wpc # "idle"
    /\ points = <<>>
    /\ Len(log) > 0
    /\ log[1][1] = "connect"

\* C33 (state part): for a channel of a run with an empty profile the relay is
\* closed and then opened, no reading is taken and no sample pushed, and no
\* voltage is set before the relay is open again.
C33_State ==
    EmptyProfileChannel =>
        /\ wpc \notin {"m_meas", "m_compl", "m_trip", "m_put", "m_chk"}
        /\ \A i \in 1..Len(log) :
              /\ log[i][1] \notin {"meas", "compl", "put"}
              /\ log[i][1] \in {"setv", "query", "ramp", "poll"} =>
                    \E j \in 1..(i - 1) : log[j] = <<"disc", log[1][2]>>
        /\ wpc \notin {"m_for", "m_disc"} =>
              \E j \in 1..Len(log) : log[j] = <<"disc", log[1][2]>>

\* C33 (step part): after such a channel the channel loop goes on to the next
\* entry of the active channel list unless a stop was requested.
C33_Step ==
    /\ (wpc = "r_chk" /\ points = <<>> /\ running /\ wpc' # wpc)
          => wpc' = "r_next"
    /\ (wpc = "r_next" /\ points = <<>> /\ it < Len(acl) /\ wpc' # wpc)
          => (wpc' = "m_connect" /\ sipm' = acl[it + 1])

\* C33: a channel whose voltage profile is empty is connected and
\* disconnected, gets no voltage and no sample, and the run goes on with the
\* next active channel.
C33_EmptyProfile == []C33_State /\ [][C33_Step]_vars

C33_Witness ==
    /\ wpc = "m_connect"
    /\ points = <<>>
    /\ it = 2
    /\ conn = <<0>>
    /\ sipm = 1
    /\ closed = {}
    /\ queue = <<>>
    /\ Len(log) >= 2
    /\ log[1] = <<"connect", 0>>
    /\ log[2] = <<"disc", 0>>

====
